---- MODULE Spec2Model ----
(***************************************************************************)
(* Accident confirmation and incident submission of safety-compass.        *)
(*                                                                         *)
(* One browser tab runs one Dashboard (src/src/pages/Dashboard.tsx) with   *)
(* one EmergencyConfirmation (src/src/components/EmergencyConfirmation.tsx)*)
(* inside it.  All tabs belong to the same signed-in user, so they share   *)
(* the localStorage entry safeguard_emergency_last_sent_<userId> and the   *)
(* accidents table, and nothing else.                                      *)
(*                                                                         *)
(* Scheduling.  Inside one tab JavaScript runs to completion: a handler    *)
(* runs from its entry to its first await (or its return) as one action,   *)
(* and each continuation after an await is one action.  React state and    *)
(* the props derived from it (isOpen = showEmergency, isLoading =          *)
(* isReporting) are taken to be rendered, and the effects that depend on   *)
(* them run, in the action that sets the state.  Tabs are separate event   *)
(* loops: localStorage gives no atomicity over a getItem followed by a     *)
(* setItem, so the only place where another tab can step in the middle of  *)
(* a handler is between Dashboard.tsx:75 (getItem) and :89 (setItem); the  *)
(* model gives that place the control point "acquire".  The clock moves    *)
(* in steps of at least the poll interval and does not move while a tab is *)
(* at "acquire".                                                           *)
(***************************************************************************)
EXTENDS Integers, Sequences, FiniteSets, TLC

VARIABLES
    now,            \* Date.now(), in ms
    tabs,           \* the tabs that are open (each a mounted Dashboard)
    localStorage,   \* item stored under lockKey: Null, or Some(n) for the string String(n)
    accidents,      \* rows of the accidents table, in insertion order
    tab,            \* per tab: the Dashboard's and the EmergencyConfirmation's state
    features,       \* classify-risk: the request bodies its clients send
    cache,          \* classify-risk: the module-level Map, per cache key
    requests,       \* classify-risk: per connection, the request being handled
    served,         \* classify-risk: per cache key, the last response sent
    views,          \* AdminDashboard: per admin, the mounted page's state
    updates,        \* AdminDashboard: update requests on their way to the table
    motion          \* useShakeDetection: the hook's state and what it fired

\* The variables of each part; a step of one part leaves the other parts alone.
classifierVars == <<features, cache, requests, served>>

adminVars == <<views, updates>>

motionVars == <<motion>>

vars == <<now, tabs, localStorage, accidents, tab, classifierVars, adminVars, motionVars>>

\* A value that may be null or undefined: Null, or Some(v).
Null == << >>

Some(v) == <<v>>

Val(o) == o[1]

Tabs == {1, 2}

\* ------------------------------------------------------------------ constants

CooldownMs == 8000

countdownDuration == 15

PollMs == 200

userId == "user-1"

\* ------------------------------------------------------------------ bounds

\* How long the model follows the clock after the first mount, with one tab and with
\* two, in half cool-down windows.
MaxTime == 4

MaxTimeTabs == 1

\* Amounts of time that pass between two events: half a cool-down window (so that two
\* steps reach the first instant outside it) and a whole countdown.
ClockSteps == {CooldownMs \div 2, countdownDuration * 1000}

\* The epoch clock is far past one cool-down window when the page loads.
Epoch == CooldownMs

Horizon == Epoch + MaxTime * (CooldownMs \div 2)

HorizonTabs == Epoch + MaxTimeTabs * (CooldownMs \div 2)

\* Position fixes the Position Source delivers: speed in km/h, or Null when the
\* device reports none.
Speeds == {Null, Some(60)}

RiskLevels == {"low", "medium", "high"}

\* risk_level values a 2xx classification response can carry: the enum, the enum in
\* another case, a string outside the enum, a number, and a missing field.
RawLevels ==
    {[isString |-> TRUE, text |-> t] : t \in {"low", "medium", "high", "HIGH", "critical"}}
        \cup {[isString |-> FALSE, text |-> "7"], [isString |-> FALSE, text |-> "undefined"]}

\* Coordinates of the fixes the Position Source delivers.
Fixes == {<<12, 77>>}

\* The fixes of a device that moves.
MovingFixes == {<<12, 77>>, <<13, 78>>}

Max(a, b) == IF a >= b THEN a ELSE b

\* ------------------------------------------------------------------ state

\* The locals of handleConfirmEmergency while it is not running.
\* classifyBody, insertRow and emailBody are the position data of the three requests
\* the run has issued.
NoLocals ==
    [now |-> 0, lat |-> 0, lng |-> 0, spd |-> 0, riskLevel |-> "medium",
     classify |-> "none", insert |-> "none", email |-> "none",
     classifyBody |-> Null, insertRow |-> Null, emailBody |-> Null]

\* A tab right after its Dashboard mounted.
InitTab ==
    [ \* Dashboard
      geoRef             |-> [latitude |-> Null, longitude |-> Null, speed |-> Null],
      showEmergency      |-> FALSE,
      isReporting        |-> FALSE,
      reportInFlightRef  |-> FALSE,
      lastEmergencyAtRef |-> 0,
      \* EmergencyConfirmation
      countdown          |-> countdownDuration,
      hasConfirmedRef    |-> FALSE,
      deadlineRef        |-> 0,        \* 0 for null: the code tests it with !deadlineRef.current
      timeoutId          |-> 0,        \* 0 for none, else the time the pending tick is due
      \* handleConfirmEmergency: where it is suspended, and its locals
      pc                 |-> "idle",   \* idle, acquire, classifying, inserting, notifying
      local              |-> NoLocals,
      \* what the tab did since its current session opened, for stating the properties
      run                |-> 0,        \* accepted runs since the mount
      emailRequests      |-> 0,        \* send-email requests issued
      outcome            |-> << >>,    \* outcome toasts shown
      log                |-> "none",   \* what the last confirm call logged
      lastToast          |-> "none",   \* the last toast shown
      confirmCalls       |-> 0,        \* onConfirm invocations
      fired              |-> {} ]      \* confirm triggers seen: press, expiry

TypeOK ==
    /\ now \in Epoch..Horizon
    /\ tabs \subseteq Tabs
    /\ localStorage = Null \/ Val(localStorage) \in Epoch..Horizon
    /\ DOMAIN tab = Tabs
    /\ \A i \in Tabs :
        /\ tab[i].pc \in {"idle", "acquire", "classifying", "inserting", "notifying"}
        /\ tab[i].local.riskLevel \in RiskLevels
        /\ tab[i].showEmergency \in BOOLEAN
        /\ tab[i].isReporting \in BOOLEAN

\* ------------------------------------------------------------------ pure functions

\* String.prototype.toLowerCase on the strings of RawLevels.
toLowerCase(s) == IF s = "HIGH" THEN "high" ELSE s

normalizeRiskLevelMutant(value, fallback) ==
    IF value.isString THEN toLowerCase(value.text) ELSE fallback

normalizeRiskLevel(value, fallback) ==
    LET v == IF value.isString THEN toLowerCase(value.text) ELSE ""
    IN  IF v = "low" \/ v = "medium" \/ v = "high" THEN v ELSE fallback

\* The catch branch of the classification call.
SpeedFallback(spd) == IF spd > 50 THEN "high" ELSE IF spd > 20 THEN "medium" ELSE "low"

RemainingSecMutant(deadline, t) == (deadline - t + 999) \div 1000

\* Math.max(0, Math.ceil(remainingMs / 1000))
RemainingSec(deadline, t) ==
    LET remainingMs == deadline - t
    IN  IF remainingMs <= 0 THEN 0 ELSE (remainingMs + 999) \div 1000

\* Number(localStorage.getItem(lockKey) || 0)
StoredLast == IF localStorage = Null THEN 0 ELSE Val(localStorage)

\* ------------------------------------------------------------------ Dashboard: confirm

RecentlySentMutant(t, lastSeen) == FALSE

RecentlySentInclusiveMutant(t, lastSeen) == t - lastSeen <= CooldownMs

\* The dedupe test of the guard.
RecentlySent(t, lastSeen) == t - lastSeen < CooldownMs

handleConfirmEmergencyMutant(t) ==
    LET lat == t.geoRef.latitude
        lng == t.geoRef.longitude
        spd == IF t.geoRef.speed = Null THEN 0 ELSE Val(t.geoRef.speed)
        lastSeen == Max(t.lastEmergencyAtRef, StoredLast)
    IN  IF userId = "" \/ lat = Null \/ lng = Null
            THEN [t EXCEPT !.log = "no user or position"]
        ELSE IF RecentlySent(now, lastSeen)
            THEN [t EXCEPT !.log = "recently sent"]
        ELSE [t EXCEPT !.pc = "acquire", !.log = "accepted",
                       !.local = [NoLocals EXCEPT !.now = now, !.lat = Val(lat),
                                                  !.lng = Val(lng), !.spd = spd]]

handleConfirmEmergencyLoudMutant(t) ==
    LET lat == t.geoRef.latitude
        lng == t.geoRef.longitude
        spd == IF t.geoRef.speed = Null THEN 0 ELSE Val(t.geoRef.speed)
        lastSeen == Max(t.lastEmergencyAtRef, StoredLast)
    IN  IF userId = "" \/ lat = Null \/ lng = Null
            THEN [t EXCEPT !.log = "no user or position"]
        ELSE IF RecentlySent(now, lastSeen)
            THEN [t EXCEPT !.log = "recently sent", !.lastToast = "Error"]
        ELSE IF t.reportInFlightRef
            THEN [t EXCEPT !.log = "already reporting"]
        ELSE [t EXCEPT !.pc = "acquire", !.log = "accepted",
                       !.local = [NoLocals EXCEPT !.now = now, !.lat = Val(lat),
                                                  !.lng = Val(lng), !.spd = spd]]

\* handleConfirmEmergency from its entry to the guard's decision: either it returns
\* (t unchanged but for the log) or it goes on to take the lock.
handleConfirmEmergency(t) ==
    LET lat == t.geoRef.latitude
        lng == t.geoRef.longitude
        spd == IF t.geoRef.speed = Null THEN 0 ELSE Val(t.geoRef.speed)
        lastSeen == Max(t.lastEmergencyAtRef, StoredLast)
    IN  IF userId = "" \/ lat = Null \/ lng = Null
            THEN [t EXCEPT !.log = "no user or position"]
        ELSE IF RecentlySent(now, lastSeen)
            THEN [t EXCEPT !.log = "recently sent"]
        ELSE IF t.reportInFlightRef
            THEN [t EXCEPT !.log = "already reporting"]
        ELSE [t EXCEPT !.pc = "acquire", !.log = "accepted",
                       !.local = [NoLocals EXCEPT !.now = now, !.lat = Val(lat),
                                                  !.lng = Val(lng), !.spd = spd]]

\* ------------------------------------------------------------------ EmergencyConfirmation

handleConfirmOnceMutant(t) ==
    IF t.isReporting THEN t
    ELSE handleConfirmEmergency(
            [t EXCEPT !.hasConfirmedRef = TRUE, !.confirmCalls = @ + 1])

\* isLoading is the value the handler's closure captured; the countdown effect
\* re-creates the closure whenever isLoading changes.
handleConfirmOnce(t) ==
    IF t.isReporting THEN t
    ELSE IF t.hasConfirmedRef THEN t
    ELSE handleConfirmEmergency(
            [t EXCEPT !.hasConfirmedRef = TRUE, !.confirmCalls = @ + 1])

tickMutant(t) ==
    IF t.deadlineRef = 0 THEN t
    ELSE LET remainingSec == Max(0, t.countdown - 1)
             c == [t EXCEPT !.countdown = remainingSec]
         IN  IF remainingSec <= 0
                 THEN handleConfirmOnce([c EXCEPT !.fired = @ \cup {"expiry"}])
                 ELSE [c EXCEPT !.timeoutId = now + PollMs]

tickOnceMutant(t) ==
    IF t.deadlineRef = 0 THEN t
    ELSE LET remainingSec == RemainingSec(t.deadlineRef, now)
             c == [t EXCEPT !.countdown = remainingSec]
         IN  IF remainingSec <= 0
                 THEN handleConfirmOnce([c EXCEPT !.fired = @ \cup {"expiry"}])
                 ELSE c

\* One run of the countdown effect's tick.
tick(t) ==
    IF t.deadlineRef = 0 THEN t
    ELSE LET remainingSec == RemainingSec(t.deadlineRef, now)
             c == [t EXCEPT !.countdown = remainingSec]
         IN  IF remainingSec <= 0
                 THEN handleConfirmOnce([c EXCEPT !.fired = @ \cup {"expiry"}])
                 ELSE [c EXCEPT !.timeoutId = now + PollMs]

ResetEffectMutant(old, t) ==
    IF old.showEmergency = t.showEmergency THEN t
    ELSE IF ~t.showEmergency THEN [t EXCEPT !.deadlineRef = 0]
    ELSE [t EXCEPT !.deadlineRef = now + countdownDuration * 1000,
                   !.countdown = countdownDuration]

\* The effect that resets the component when the modal opens; runs when isOpen changed.
ResetEffect(old, t) ==
    IF old.showEmergency = t.showEmergency THEN t
    ELSE IF ~t.showEmergency THEN [t EXCEPT !.deadlineRef = 0]
    ELSE [t EXCEPT !.hasConfirmedRef = FALSE,
                   !.deadlineRef = now + countdownDuration * 1000,
                   !.countdown = countdownDuration]

\* The countdown effect; runs when isOpen or isLoading changed: the cleanup of the
\* previous run clears the pending timeout, then the effect runs again.
CountdownEffect(old, t) ==
    IF old.showEmergency = t.showEmergency /\ old.isReporting = t.isReporting THEN t
    ELSE LET c == [t EXCEPT !.timeoutId = 0]
         IN  IF ~c.showEmergency \/ c.hasConfirmedRef THEN c
             ELSE IF c.deadlineRef = 0 THEN c
             ELSE tick(c)

\* A render after the Dashboard's state went from old to t: the effects in the order
\* the component declares them.
Render(old, t) == CountdownEffect(old, ResetEffect(old, t))

Commit(i, t) == tab' = [tab EXCEPT ![i] = t]

\* A tab can start a handler: it is open and not in the middle of one.
Ready(i) == i \in tabs /\ tab[i].pc # "acquire"

\* ------------------------------------------------------------------ Dashboard: session

NoFixMutant(t) == FALSE

\* !latitude || !longitude: null and 0 are both falsy.
NoFix(t) ==
    \/ t.geoRef.latitude = Null
    \/ t.geoRef.longitude = Null
    \/ Val(t.geoRef.latitude) = 0
    \/ Val(t.geoRef.longitude) = 0

handleTriggerAccident(t) ==
    IF NoFix(t) THEN [t EXCEPT !.lastToast = "Location Required"]
    ELSE [t EXCEPT !.showEmergency = TRUE]

handleCancelEmergency(t) ==
    [t EXCEPT !.showEmergency = FALSE, !.lastToast = "Alert Cancelled"]

\* The Position Source delivers a fix; the Dashboard's effect copies it to geoRef.
PositionFix(i, pos, speed) ==
    /\ Ready(i)
    /\ LET fix == [latitude |-> Some(pos[1]), longitude |-> Some(pos[2]), speed |-> speed]
       IN  /\ fix # tab[i].geoRef
           /\ Commit(i, [tab[i] EXCEPT !.geoRef = fix])
    /\ UNCHANGED <<now, tabs, localStorage, accidents, classifierVars, adminVars, motionVars>>

\* The record of what the tab did starts again when a session opens.
NewSession(t) ==
    [t EXCEPT !.local = NoLocals, !.emailRequests = 0, !.outcome = << >>,
              !.log = "none", !.lastToast = "none", !.confirmCalls = 0, !.fired = {}]

\* A click on "Trigger Emergency Alert", which is disabled without a fix and while
\* reporting.
TriggerAccident(i) ==
    /\ Ready(i)
    /\ ~NoFix(tab[i]) /\ ~tab[i].isReporting
    /\ LET t == handleTriggerAccident(tab[i])
           opened == t.showEmergency /\ ~tab[i].showEmergency
       IN  Commit(i, Render(tab[i], IF opened THEN NewSession(t) ELSE t))
    /\ UNCHANGED <<now, tabs, localStorage, accidents, classifierVars, adminVars, motionVars>>

CancelDisabledMutant(t) == FALSE

\* The disabled attribute of the Cancel button.
CancelDisabled(t) == t.isReporting

\* A click on "I'm Okay - Cancel Alert", which is rendered while the modal is open.
CancelEmergency(i) ==
    /\ Ready(i)
    /\ tab[i].showEmergency /\ ~CancelDisabled(tab[i])
    /\ Commit(i, Render(tab[i], handleCancelEmergency(tab[i])))
    /\ UNCHANGED <<now, tabs, localStorage, accidents, classifierVars, adminVars, motionVars>>

\* A click on "Send Emergency Alert Now": rendered while the modal is open, disabled
\* while isLoading.
ConfirmPress(i) ==
    /\ Ready(i)
    /\ tab[i].showEmergency /\ ~tab[i].isReporting
    /\ Commit(i, handleConfirmOnce([tab[i] EXCEPT !.fired = @ \cup {"press"}]))
    /\ UNCHANGED <<now, tabs, localStorage, accidents, classifierVars, adminVars, motionVars>>

\* The pending timeout fires, at its due time or later.
Tick(i) ==
    /\ Ready(i)
    /\ tab[i].timeoutId # 0 /\ now >= tab[i].timeoutId
    /\ Commit(i, tick([tab[i] EXCEPT !.timeoutId = 0]))
    /\ UNCHANGED <<now, tabs, localStorage, accidents, classifierVars, adminVars, motionVars>>

\* ------------------------------------------------------------------ Dashboard: pipeline

TakeLockMutant(t) ==
    [t EXCEPT !.reportInFlightRef = TRUE,
              !.isReporting = TRUE,
              !.pc = "classifying",
              !.run = @ + 1, !.emailRequests = 0, !.outcome = << >>]

TakeLockQuietMutant(t) ==
    [t EXCEPT !.lastEmergencyAtRef = t.local.now,
              !.reportInFlightRef = TRUE,
              !.pc = "classifying",
              !.run = @ + 1, !.emailRequests = 0, !.outcome = << >>]

\* handleConfirmEmergency from the lock to the classification request: the tab's part.
TakeLock(t) ==
    [t EXCEPT !.lastEmergencyAtRef = t.local.now,
              !.reportInFlightRef = TRUE,
              !.isReporting = TRUE,
              !.pc = "classifying",
              !.local.classifyBody = Some([speed |-> t.local.spd,
                                           latitude |-> t.local.lat,
                                           longitude |-> t.local.lng]),
              !.run = @ + 1, !.emailRequests = 0, !.outcome = << >>]

AcquireLock(i) ==
    /\ i \in tabs
    /\ tab[i].pc = "acquire"
    /\ localStorage' = Some(tab[i].local.now)
    /\ Commit(i, Render(tab[i], TakeLock(tab[i])))
    /\ UNCHANGED <<now, tabs, accidents, classifierVars, adminVars, motionVars>>

\* What the classification request can come back with.
ClassifyResponses ==
    {[kind |-> "2xx", risk_level |-> r] : r \in RawLevels}
        \cup {[kind |-> k, risk_level |-> [isString |-> FALSE, text |-> "undefined"]] :
                k \in {"2xx unparsable", "non-2xx", "transport error"}}

\* The risk level after the classification try/catch.
RiskAfterClassify(riskLevel, spd, r) ==
    IF r.kind = "2xx" THEN normalizeRiskLevel(r.risk_level, riskLevel)
    ELSE IF r.kind = "non-2xx" THEN riskLevel
    ELSE SpeedFallback(spd)

FinallyMutant(t) ==
    [t EXCEPT !.isReporting = FALSE, !.pc = "idle"]

\* The finally block.
Finally(t) ==
    [t EXCEPT !.isReporting = FALSE, !.reportInFlightRef = FALSE, !.pc = "idle"]

CatchSilentMutant(t) == t

\* The outer catch block.
Catch(t) ==
    [t EXCEPT !.outcome = Append(@, "failure"), !.lastToast = "Error"]

AfterClassifyMutant(t, r) ==
    IF r.kind = "non-2xx"
        THEN Finally(Catch([t EXCEPT !.local.classify = r.kind]))
        ELSE [t EXCEPT !.local.classify = r.kind,
                       !.local.riskLevel = RiskAfterClassify(@, t.local.spd, r),
                       !.pc = "inserting"]

AfterClassifySkipMutant(t, r) ==
    [t EXCEPT !.local.classify = r.kind,
              !.local.riskLevel = RiskAfterClassify(@, t.local.spd, r),
              !.emailRequests = @ + 1,
              !.pc = "notifying"]

AfterClassifyGeoMutant(t, r) ==
    [t EXCEPT !.local.classify = r.kind,
              !.local.riskLevel = RiskAfterClassify(@, t.local.spd, r),
              !.local.insertRow = Some([latitude |-> Val(t.geoRef.latitude),
                                        longitude |-> Val(t.geoRef.longitude),
                                        speed |-> t.local.spd]),
              !.pc = "inserting"]

\* The continuation after the classification call: every outcome goes on to the insert.
AfterClassify(t, r) ==
    [t EXCEPT !.local.classify = r.kind,
              !.local.riskLevel = RiskAfterClassify(@, t.local.spd, r),
              !.local.insertRow = Some([latitude |-> t.local.lat,
                                        longitude |-> t.local.lng,
                                        speed |-> t.local.spd]),
              !.pc = "inserting"]

ClassifyReturns(i, r) ==
    /\ Ready(i)
    /\ tab[i].pc = "classifying"
    /\ Commit(i, Render(tab[i], AfterClassify(tab[i], r)))
    /\ UNCHANGED <<now, tabs, localStorage, accidents, classifierVars, adminVars, motionVars>>

\* The row the insert writes; the table leaves responded_at and resolved_at null.
Row(i, t) ==
    [tab |-> i, run |-> t.run, at |-> t.local.now,
     risk_level |-> t.local.riskLevel, status |-> "pending",
     responded_at |-> Null, resolved_at |-> Null]

InsertResults == {"ok", "error", "rejected"}

AfterInsertMutant(t, r) ==
    [t EXCEPT !.local.insert = r, !.emailRequests = @ + 1, !.pc = "notifying"]

\* The continuation after the insert: on success the send-email request is issued,
\* on an error (returned, or thrown by the await) the outer catch and finally run.
AfterInsert(t, r) ==
    IF r = "ok"
        THEN [t EXCEPT !.local.insert = r, !.emailRequests = @ + 1,
                       !.local.emailBody = Some([latitude |-> t.local.lat,
                                                 longitude |-> t.local.lng]),
                       !.pc = "notifying"]
        ELSE Finally(Catch([t EXCEPT !.local.insert = r]))

InsertReturns(i, r) ==
    /\ Ready(i)
    /\ tab[i].pc = "inserting"
    /\ accidents' = IF r = "ok" THEN Append(accidents, Row(i, tab[i])) ELSE accidents
    /\ Commit(i, Render(tab[i], AfterInsert(tab[i], r)))
    /\ UNCHANGED <<now, tabs, localStorage, classifierVars, adminVars, motionVars>>

EmailResults == {"2xx", "2xx unparsable", "non-2xx", "transport error"}

AfterEmailMutant(t, r) ==
    IF r = "2xx"
        THEN Finally([t EXCEPT !.local.email = r,
                               !.outcome = Append(@, "success"),
                               !.lastToast = "Emergency Reported: email sent",
                               !.showEmergency = FALSE])
        ELSE Finally(Catch([t EXCEPT !.local.email = r]))

\* The continuation after the send-email call: a toast, the modal closes, finally runs.
AfterEmail(t, r) ==
    Finally([t EXCEPT !.local.email = r,
                      !.outcome = Append(@, IF r = "2xx" THEN "success" ELSE "partial"),
                      !.lastToast = IF r = "2xx" THEN "Emergency Reported: email sent"
                                    ELSE "Emergency Reported: email failed",
                      !.showEmergency = FALSE])

EmailReturns(i, r) ==
    /\ Ready(i)
    /\ tab[i].pc = "notifying"
    /\ Commit(i, Render(tab[i], AfterEmail(tab[i], r)))
    /\ UNCHANGED <<now, tabs, localStorage, accidents, classifierVars, adminVars, motionVars>>

\* ------------------------------------------------------------------ clock

Advance(d) ==
    /\ \A i \in Tabs : tab[i].pc # "acquire"
    /\ now + d <= (IF tabs = Tabs THEN HorizonTabs ELSE Horizon)
    /\ now' = now + d
    /\ UNCHANGED <<tabs, localStorage, accidents, tab, classifierVars, adminVars, motionVars>>

\* ------------------------------------------------------------------ classify-risk service
\*
\* The edge function src/supabase/functions/classify-risk/index.ts.  One handler runs
\* per request; handlers of different connections interleave at their awaits and share
\* the module-level cache.  A handler runs from the parsed body to the cache answer or
\* to the remote call as one action, and from the remote call's outcome to its response
\* as another.  The API key is configured.  Speeds are in 0.01 km/h, distances in 0.1 m,
\* coordinates in 0.0001 degrees, confidences in hundredths.

CACHE_TTL_MS == 60000

\* How long the model follows the clock of the service, in half TTLs.
MaxTimeService == 3

HorizonService == Epoch + MaxTimeService * (CACHE_TTL_MS \div 2)

\* Connections on which requests arrive; each carries one request at a time.
Conns == {1, 2}

\* A string-valued JSON field, and an absent one.
Str(s) == [isString |-> TRUE, text |-> s]

Missing == [isString |-> FALSE, text |-> "undefined"]

\* Math.round(x * 10^k) / 10^k of a non-negative x held with one more decimal.
Round(x) == (x + 5) \div 10

\* A request body.  locationChange stands for the previous coordinates: it is the
\* distance calcLocationChangeMeters computes from them (0 when they are absent).
AccidentData(speed, locationChange, hour) ==
    [speed |-> speed, latitude |-> 129716, longitude |-> 775946,
     locationChange |-> locationChange, hour |-> hour]

\* accidentData.speed || 0
SpeedOrZero(data) == IF data.speed = Null THEN 0 ELSE Val(data.speed)

isNightTime(hour) == hour < 6 \/ hour >= 22

isRushHour(hour) == (hour >= 7 /\ hour <= 9) \/ (hour >= 17 /\ hour <= 19)

cacheKey(data) ==
    <<Round(SpeedOrZero(data)), Round(data.latitude), Round(data.longitude),
      data.hour, Round(data.locationChange)>>

ruleBasedClassificationMutant(speed, locationChange, night, rush) ==
    LET high == speed > 6000 \/ locationChange > 500
        medium == (speed >= 3000 /\ speed <= 6000)
                    \/ (locationChange >= 200 /\ locationChange <= 500) \/ rush
    IN  [risk_level |-> Str(IF high THEN "high" ELSE IF medium THEN "medium" ELSE "low"),
         confidence |-> 55,
         reasoning  |-> IF high THEN "High risk based on speed/location/time heuristics"
                        ELSE IF medium
                            THEN "Medium risk based on speed/location/traffic heuristics"
                            ELSE "Low risk based on speed/location/time heuristics"]

ruleBasedClassification(speed, locationChange, night, rush) ==
    LET high == speed > 6000 \/ locationChange > 500 \/ (night /\ speed > 4000)
        medium == (speed >= 3000 /\ speed <= 6000)
                    \/ (locationChange >= 200 /\ locationChange <= 500) \/ rush
    IN  [risk_level |-> Str(IF high THEN "high" ELSE IF medium THEN "medium" ELSE "low"),
         confidence |-> 55,
         reasoning  |-> IF high THEN "High risk based on speed/location/time heuristics"
                        ELSE IF medium
                            THEN "Medium risk based on speed/location/traffic heuristics"
                            ELSE "Low risk based on speed/location/time heuristics"]

\* The fallback the handler computes for a request body.
Fallback(data) ==
    ruleBasedClassification(SpeedOrZero(data), data.locationChange,
                            isNightTime(data.hour), isRushHour(data.hour))

\* What the remote model call can come back with: the fetch throws (status 0), a
\* non-2xx status, or 200 with a body that is not JSON ("not json"), that has no
\* candidate text ("no text"), whose text holds no parsable JSON object ("no object"),
\* or whose text holds the object parsed.
ParsedObjects ==
    {[risk_level |-> l, confidence |-> Some(90), reasoning |-> Some("model reasoning")] :
        l \in {Str("high"), Str("low")}}
        \cup {[risk_level |-> Missing, confidence |-> Null, reasoning |-> Null]}

NoObject == [risk_level |-> Missing, confidence |-> Null, reasoning |-> Null]

RemoteOutcomes ==
    {[status |-> s, body |-> "error", parsed |-> NoObject] : s \in {0, 429, 503, 403, 500}}
        \cup {[status |-> 200, body |-> b, parsed |-> NoObject] :
                b \in {"not json", "no text", "no object"}}
        \cup {[status |-> 200, body |-> "object", parsed |-> p] : p \in ParsedObjects}

\* A response of the service.
Response(status, value, powered_by) ==
    [status |-> status, value |-> value, powered_by |-> powered_by]

\* A connection with no request on it.
\* overlap is kept for stating the properties: the connections whose request of the
\* same cache key was waiting for the remote call while this one was.
NoRequest ==
    [pc |-> "idle", data |-> Null, at |-> 0, remote |-> Null, response |-> Null,
     overlap |-> {}]

CacheHitMutant(cached) ==
    cached # Null /\ Val(cached).expiresAt > now + CACHE_TTL_MS \div 2

\* cached && cached.expiresAt > Date.now()
CacheHit(cached) == cached # Null /\ Val(cached).expiresAt > now

\* The classification the handler builds from the parsed object.
Parsed(p) ==
    [risk_level |-> p.risk_level,
     confidence |-> IF p.confidence = Null THEN 70 ELSE Val(p.confidence),
     reasoning  |-> IF p.reasoning = Null THEN "AI classification" ELSE Val(p.reasoning)]

\* The statuses of the remote call the handler takes for rate limiting.
RateLimited(status) == status = 429 \/ status = 503

\* The handler from the remote call's outcome to its response: the response, and the
\* classification it puts in the cache (Null when it puts none).
AfterRemote(data, o) ==
    IF o.status = 0
        THEN [response |-> Response(500, Null, "none"), store |-> Null]
    ELSE IF o.status # 200
        THEN IF RateLimited(o.status)
                 THEN [response |-> Response(200, Some(Fallback(data)), "fallback"),
                       store |-> Some(Fallback(data))]
             ELSE IF o.status = 403
                 THEN [response |-> Response(403, Null, "none"), store |-> Null]
             ELSE [response |-> Response(500, Null, "none"), store |-> Null]
    ELSE IF o.body = "not json" \/ o.body = "no text"
        THEN [response |-> Response(500, Null, "none"), store |-> Null]
    ELSE LET classification == IF o.body = "object" THEN Parsed(o.parsed)
                               ELSE Fallback(data)
         IN  [response |-> Response(200, Some(classification), "google"),
              store |-> Some(classification)]

\* The connections other than c whose request of the key waits for the remote call.
Overlapping(c, key) ==
    {d \in DOMAIN requests \ {c} :
        requests[d].pc = "fetching" /\ cacheKey(Val(requests[d].data)) = key}

\* The connections after the request q replaced the one on connection c: the requests
\* in met wait for the remote call together with q.
Replaced(c, q, met) ==
    [d \in DOMAIN requests |->
        IF d = c THEN [q EXCEPT !.overlap = met]
        ELSE IF d \in met THEN [requests[d] EXCEPT !.overlap = @ \cup {c}]
        ELSE [requests[d] EXCEPT !.overlap = @ \ {c}]]

\* A request arrives on a connection: the handler runs to the cache answer, or to the
\* remote call.
Receive(c, data) ==
    /\ c \in DOMAIN requests
    /\ requests[c].pc = "idle"
    /\ data \in features
    /\ LET key == cacheKey(data)
           cached == cache[key]
           response == Response(200, Some(Val(cached).value), "cache")
       IN  IF CacheHit(cached)
               THEN /\ requests' = Replaced(c,
                            [NoRequest EXCEPT !.data = Some(data), !.at = now,
                                              !.response = Some(response)], {})
                    /\ served' = [served EXCEPT ![key] =
                            Some([at |-> now, response |-> response])]
               ELSE /\ requests' = Replaced(c,
                            [NoRequest EXCEPT !.pc = "fetching", !.data = Some(data),
                                              !.at = now], Overlapping(c, key))
                    /\ served' = served
    /\ UNCHANGED <<now, tabs, localStorage, accidents, tab, features, cache,
                   adminVars, motionVars>>

\* The remote call of a connection's request comes back.
RemoteReturns(c, o) ==
    /\ c \in DOMAIN requests
    /\ requests[c].pc = "fetching"
    /\ LET data == Val(requests[c].data)
           key == cacheKey(data)
           r == AfterRemote(data, o)
       IN  /\ cache' = IF r.store = Null THEN cache
                       ELSE [cache EXCEPT ![key] =
                                Some([value |-> Val(r.store),
                                      expiresAt |-> now + CACHE_TTL_MS])]
           /\ requests' = [requests EXCEPT ![c] =
                    [@ EXCEPT !.pc = "idle", !.remote = Some(o),
                              !.response = Some(r.response)]]
           /\ served' = [served EXCEPT ![key] =
                    Some([at |-> requests[c].at, response |-> r.response])]
    /\ UNCHANGED <<now, tabs, localStorage, accidents, tab, features,
                   adminVars, motionVars>>

\* Time passes, up to a horizon.
Elapse(d, horizon) ==
    /\ now + d <= horizon
    /\ now' = now + d
    /\ UNCHANGED <<tabs, localStorage, accidents, tab, classifierVars, adminVars,
                   motionVars>>

\* The requests the clients of the service send while the cache is followed: two that
\* differ in the speed and round to one cache key.
RequestBodies ==
    {AccidentData(Some(6000), 0, 14), AccidentData(Some(6004), 0, 14)}

\* The speeds, distances and hours of the requests the rules are followed on.
RuleSpeeds == {Null, Some(1000), Some(2999), Some(3000), Some(4000), Some(4001),
               Some(6000), Some(6001), Some(7000)}

RuleDistances == {0, 50, 199, 200, 500, 501}

RuleHours == {5, 6, 7, 8, 9, 10, 14, 16, 17, 19, 20, 21, 22}

\* The service right after the isolate started, serving on the connections conns the
\* clients that send bodies.
ServiceStarts(bodies, conns) ==
    /\ features = bodies
    /\ cache = [k \in {cacheKey(d) : d \in bodies} |-> Null]
    /\ requests = [c \in conns |-> NoRequest]
    /\ served = [k \in {cacheKey(d) : d \in bodies} |-> Null]

\* ------------------------------------------------------------------ AdminDashboard
\*
\* Each admin has one mounted AdminDashboard (src/src/pages/AdminDashboard.tsx) holding
\* a copy of the accidents table, which fetchAccidents replaces with the table as it is.
\* fetchAccidents runs after the mount, on every change event of the realtime channel,
\* after an update of the admin's own and on Refresh, at a time of its own: until it
\* ran the copy is stale.  An update request travels for a while before the table
\* applies it.

Admins == {1, 2}

\* The page right after it mounted, before the first fetchAccidents returned.
\* events and alerts are kept for stating the properties: the INSERT events the page
\* has handled, and the new-accident alerts (sound and toast) it raised.
InitView ==
    [accidents |-> << >>, lastToast |-> "none", lastInsertToastRef |-> Null,
     events |-> 0, alerts |-> << >>]

\* The incidents the table holds when the admins arrive: rows the pipeline inserted.
Reported ==
    <<[tab |-> 1, run |-> 1, at |-> Epoch, risk_level |-> "high", status |-> "pending",
       responded_at |-> Null, resolved_at |-> Null]>>

\* The status whose row shows the button that sets status: Respond on pending rows,
\* Resolve on responded rows.
ButtonShown(shown, status) ==
    \/ shown = "pending" /\ status = "responded"
    \/ shown = "responded" /\ status = "resolved"

\* updateData of updateAccidentStatus.
UpdateData(status, at) ==
    [status |-> status,
     responded_at |-> IF status = "responded" THEN Some(at) ELSE Null,
     resolved_at  |-> IF status = "resolved" THEN Some(at) ELSE Null]

\* The row after the table applied update(updateData).eq('id', id): the fields
\* updateData has are written, whatever the row holds.
Updated(row, u) ==
    [row EXCEPT !.status = u.data.status,
                !.responded_at = IF u.data.responded_at # Null THEN u.data.responded_at
                                 ELSE @,
                !.resolved_at  = IF u.data.resolved_at # Null THEN u.data.resolved_at
                                 ELSE @]

\* fetchAccidents of an admin's page returns.
FetchAccidents(a, r) ==
    /\ a \in DOMAIN views
    /\ views' = [views EXCEPT ![a] =
            IF r = "ok" THEN [@ EXCEPT !.accidents = accidents]
            ELSE [@ EXCEPT !.lastToast = "Error: fetch"]]
    /\ views' # views
    /\ UNCHANGED <<now, tabs, localStorage, accidents, tab, classifierVars, updates,
                   motionVars>>

\* A click on Respond or Resolve in the row of incident id: updateAccidentStatus up to
\* its await.
UpdateAccidentStatus(a, id, status) ==
    /\ a \in DOMAIN views
    /\ id \in DOMAIN views[a].accidents
    /\ ButtonShown(views[a].accidents[id].status, status)
    /\ LET u == [admin |-> a, id |-> id, data |-> UpdateData(status, now)]
       IN  /\ u \notin updates
           /\ updates' = updates \cup {u}
    /\ UNCHANGED <<now, tabs, localStorage, accidents, tab, classifierVars, views,
                   motionVars>>

\* The update request returns: updateAccidentStatus after its await.
UpdateReturns(u, r) ==
    /\ u \in updates
    /\ updates' = updates \ {u}
    /\ accidents' = IF r = "ok" THEN [accidents EXCEPT ![u.id] = Updated(@, u)]
                    ELSE accidents
    /\ views' = [views EXCEPT ![u.admin].lastToast =
            IF r = "ok" THEN "Success" ELSE "Error: update"]
    /\ UNCHANGED <<now, tabs, localStorage, tab, classifierVars, motionVars>>

\* The window in which a repeated INSERT event is not alerted again.
DedupeMs == 5000

\* How many INSERT events, and how much time in half dedupe windows, the model follows
\* on an admin page.
MaxEvents == 4

MaxTimeAlerts == 3

HorizonAlerts == Epoch + MaxTimeAlerts * (DedupeMs \div 2)

\* The ids of the incidents the INSERT events are about.
EventIds == {1, 2}

\* The table the events are about: two reported incidents.
ReportedTwice == <<Reported[1], [Reported[1] EXCEPT !.run = 2]>>

\* id && prev?.id === id && now - prev.at < 5000
Repeated(prev, id) ==
    prev # Null /\ Val(prev).id = id /\ now - Val(prev).at < DedupeMs

\* The handler of the realtime channel on an INSERT event for incident id: it starts
\* fetchAccidents (which returns in a step of its own) and alerts unless the event
\* repeats the last alerted one.
InsertEvent(a, id) ==
    /\ a \in DOMAIN views
    /\ views[a].events < MaxEvents
    /\ LET v == [views[a] EXCEPT !.events = @ + 1]
       IN  views' = [views EXCEPT ![a] =
                IF Repeated(v.lastInsertToastRef, id) THEN v
                ELSE [v EXCEPT !.lastInsertToastRef = Some([id |-> id, at |-> now]),
                               !.alerts = Append(@, [id |-> id, at |-> now]),
                               !.lastToast = "New Accident Detected"]]
    /\ UNCHANGED <<now, tabs, localStorage, accidents, tab, classifierVars, updates,
                   motionVars>>

\* ------------------------------------------------------------------ useShakeDetection
\*
\* One mounted useShakeDetection (src/src/hooks/useShakeDetection.tsx).  The effect
\* that registers the devicemotion listener runs in the action that sets isEnabled, so
\* the listener is registered exactly while isEnabled holds.  Accelerations are in
\* 0.01 m/s^2.  The square root of handleMotion is not taken: a comparison of
\* Math.sqrt(n) with a bound is made on n and the bound's square.

\* How long the model follows the clock of the hook, in half debounce windows of the
\* default options.
MaxTimeMotion == 3

debounceMs == 2000

HorizonMotion == Epoch + MaxTimeMotion * (debounceMs \div 2)

\* The options the hook is mounted with: its defaults (lines 25-27), and a less
\* sensitive setting under which a drop is not a shake as well.
MotionOptions ==
    {[shakeThreshold |-> 700, dropThreshold |-> 250, debounceMs |-> debounceMs,
      autoStart |-> TRUE],
     [shakeThreshold |-> 2500, dropThreshold |-> 300, debounceMs |-> debounceMs,
      autoStart |-> TRUE]}

\* Platforms: whether DeviceMotionEvent exists, whether it has requestPermission
\* (iOS 13+), whether window has Accelerometer, and whether the user agent is a mobile
\* one.
Platforms ==
    {[hasDeviceMotion |-> TRUE, needsIOSPermission |-> FALSE, hasAccelerometer |-> TRUE,
      isMobile |-> TRUE],
     [hasDeviceMotion |-> TRUE, needsIOSPermission |-> TRUE, hasAccelerometer |-> FALSE,
      isMobile |-> TRUE],
     [hasDeviceMotion |-> FALSE, needsIOSPermission |-> FALSE, hasAccelerometer |-> FALSE,
      isMobile |-> FALSE]}

\* Acceleration vectors of the samples.
Vectors ==
    {<<0, 0, 0>>, <<0, 0, 249>>, <<0, 0, 250>>, <<0, 0, 981>>, <<300, 400, 0>>,
     <<0, 0, 1681>>, <<1200, 1600, 0>>}

\* devicemotion events: accelerationIncludingGravity and acceleration, each Null when
\* the device gives none or leaves a component null.
Samples ==
    {[including |-> Some(v), linear |-> Null] : v \in Vectors}
        \cup {[including |-> Null, linear |-> Some(v)] :
                v \in {<<0, 0, 0>>, <<0, 0, 700>>, <<0, 0, 701>>}}
        \cup {[including |-> Null, linear |-> Null]}

\* x * x + y * y + z * z
SumOfSquares(v) == v[1] * v[1] + v[2] * v[2] + v[3] * v[3]

\* Math.sqrt(n) < bound and Math.sqrt(n) > bound.
SqrtBelow(n, bound) == bound > 0 /\ n < bound * bound

SqrtAbove(n, bound) == bound < 0 \/ n > bound * bound

gravity == 981

\* The hook at its first render on platform p with options o.
Mounted(p, o) ==
    [platform        |-> p,
     options         |-> o,
     effectsRan      |-> FALSE,
     isSupported     |-> FALSE,
     isEnabled       |-> FALSE,
     permissionState |-> "unknown",
     lastEvent       |-> "null",
     lastTriggerRef  |-> 0,
     prompting       |-> FALSE,     \* requestPermission awaits the user's answer
     \* what the last sample did, and all events fired, for stating the properties
     sample          |-> Null,
     debounced       |-> FALSE,
     detected        |-> << >>,     \* onDetect calls of the last sample
     firedAt         |-> << >>]     \* times of all onDetect calls

IsDropMutant(canUseIncluding, n, o) == FALSE

\* canUseIncluding && totalAcceleration < dropThreshold
IsDrop(canUseIncluding, n, o) == canUseIncluding /\ SqrtBelow(n, o.dropThreshold)

IsShakeMutant(canUseIncluding, n, o) == SqrtAbove(n, o.shakeThreshold)

\* shakeValue > shakeThreshold
IsShake(canUseIncluding, n, o) ==
    IF canUseIncluding
        THEN \/ SqrtAbove(n, gravity + o.shakeThreshold)
             \/ SqrtBelow(n, gravity - o.shakeThreshold)
        ELSE SqrtAbove(n, o.shakeThreshold)

\* The hook after the detection of an event of the given type.
Detect(h, type) ==
    [h EXCEPT !.lastTriggerRef = now, !.lastEvent = type,
              !.detected = Append(@, type), !.firedAt = Append(@, now)]

handleMotionMutant(h, event) ==
    LET canUseIncluding == event.including # Null
        source == IF canUseIncluding THEN event.including ELSE event.linear
        n == SumOfSquares(Val(source))
        s == [h EXCEPT !.sample = Some(event), !.debounced = FALSE, !.detected = << >>]
    IN  IF source = Null THEN s
        ELSE IF IsDrop(canUseIncluding, n, h.options) THEN Detect(s, "drop")
        ELSE IF IsShake(canUseIncluding, n, h.options) THEN Detect(s, "shake")
        ELSE s

\* The handler of the devicemotion listener.
handleMotion(h, event) ==
    LET canUseIncluding == event.including # Null
        source == IF canUseIncluding THEN event.including ELSE event.linear
        n == SumOfSquares(Val(source))
        s == [h EXCEPT !.sample = Some(event), !.debounced = FALSE, !.detected = << >>]
    IN  IF source = Null THEN s
        ELSE IF now - h.lastTriggerRef < h.options.debounceMs
            THEN [s EXCEPT !.debounced = TRUE]
        ELSE IF IsDrop(canUseIncluding, n, h.options) THEN Detect(s, "drop")
        ELSE IF IsShake(canUseIncluding, n, h.options) THEN Detect(s, "shake")
        ELSE s

\* The effect that checks the support and auto-starts, run once after the mount.
checkSupport(h) ==
    LET p == h.platform
        supported == p.hasDeviceMotion \/ p.hasAccelerometer
        s == [h EXCEPT !.effectsRan = TRUE, !.isSupported = supported /\ p.isMobile]
    IN  IF supported /\ p.isMobile /\ h.options.autoStart /\ ~p.needsIOSPermission
            THEN [s EXCEPT !.permissionState = "granted", !.isEnabled = TRUE]
        ELSE IF p.needsIOSPermission THEN [s EXCEPT !.permissionState = "prompt"]
        ELSE s

\* requestPermission up to its await, or to its return where it does not await.
requestPermission(h) ==
    IF ~h.platform.hasDeviceMotion THEN [h EXCEPT !.permissionState = "denied"]
    ELSE IF h.platform.needsIOSPermission THEN [h EXCEPT !.prompting = TRUE]
    ELSE [h EXCEPT !.permissionState = "granted", !.isEnabled = TRUE]

\* requestPermission after DeviceMotionEvent.requestPermission() settled.
AfterPrompt(h, answer) ==
    IF answer = "granted"
        THEN [h EXCEPT !.prompting = FALSE, !.permissionState = "granted",
                       !.isEnabled = TRUE]
        ELSE [h EXCEPT !.prompting = FALSE, !.permissionState = "denied"]

CheckSupport ==
    /\ ~motion.effectsRan
    /\ motion' = checkSupport(motion)
    /\ UNCHANGED <<now, tabs, localStorage, accidents, tab, classifierVars, adminVars>>

RequestPermission ==
    /\ motion.effectsRan /\ ~motion.prompting
    /\ motion' = requestPermission(motion)
    /\ motion' # motion
    /\ UNCHANGED <<now, tabs, localStorage, accidents, tab, classifierVars, adminVars>>

PermissionAnswered(answer) ==
    /\ motion.prompting
    /\ motion' = AfterPrompt(motion, answer)
    /\ UNCHANGED <<now, tabs, localStorage, accidents, tab, classifierVars, adminVars>>

Enable ==
    /\ motion.effectsRan /\ ~motion.isEnabled
    /\ motion' = [motion EXCEPT !.isEnabled = TRUE]
    /\ UNCHANGED <<now, tabs, localStorage, accidents, tab, classifierVars, adminVars>>

Disable ==
    /\ motion.effectsRan /\ motion.isEnabled
    /\ motion' = [motion EXCEPT !.isEnabled = FALSE]
    /\ UNCHANGED <<now, tabs, localStorage, accidents, tab, classifierVars, adminVars>>

\* The device delivers a devicemotion event to the registered listener; where the
\* platform asks for consent it delivers none before the consent.
Motion(event) ==
    /\ motion.isEnabled
    /\ motion.platform.hasDeviceMotion
    /\ motion.platform.needsIOSPermission => motion.permissionState = "granted"
    /\ motion' = handleMotion(motion, event)
    /\ UNCHANGED <<now, tabs, localStorage, accidents, tab, classifierVars, adminVars>>

\* ------------------------------------------------------------------ specifications

\* The pages before anything happened on them.
InitPages ==
    /\ now = Epoch
    /\ localStorage = Null
    /\ accidents = << >>
    /\ tab = [i \in Tabs |-> InitTab]

\* The parts a specification does not follow stay as they start.
NoService == ServiceStarts({}, {})

NoAdmin == views = << >> /\ updates = {}

NoMotion == motion = << >>

InitCommon == InitPages /\ NoService /\ NoAdmin /\ NoMotion

\* One tab.
Init == InitCommon /\ tabs = {1}

\* Two tabs of the same user.
InitTabs == InitCommon /\ tabs = Tabs

Next ==
    \/ \E i \in Tabs, pos \in Fixes, speed \in Speeds : PositionFix(i, pos, speed)
    \/ \E i \in Tabs : TriggerAccident(i)
    \/ \E i \in Tabs : CancelEmergency(i)
    \/ \E i \in Tabs : ConfirmPress(i)
    \/ \E i \in Tabs : Tick(i)
    \/ \E i \in Tabs : AcquireLock(i)
    \/ \E i \in Tabs, r \in ClassifyResponses : ClassifyReturns(i, r)
    \/ \E i \in Tabs, r \in InsertResults : InsertReturns(i, r)
    \/ \E i \in Tabs, r \in EmailResults : EmailReturns(i, r)
    \/ \E d \in ClockSteps : Advance(d)

Spec == Init /\ [][Next]_vars

SpecTabs == InitTabs /\ [][Next]_vars

\* One tab whose pending work is eventually done: a handler that started runs on, a
\* network call the pipeline awaits eventually returns or fails, a timeout that is
\* due eventually fires, and the clock moves on.
Fairness ==
    \A i \in Tabs :
        /\ WF_vars(AcquireLock(i))
        /\ WF_vars(\E r \in ClassifyResponses : ClassifyReturns(i, r))
        /\ WF_vars(\E r \in InsertResults : InsertReturns(i, r))
        /\ WF_vars(\E r \in EmailResults : EmailReturns(i, r))
        /\ WF_vars(Tick(i))
        /\ WF_vars(\E d \in ClockSteps : Advance(d))

SpecLive == Init /\ [][Next]_vars /\ Fairness

\* One tab on a device that moves, followed through confirms by button while no time
\* passes.
NextMoving ==
    \/ \E i \in Tabs, pos \in MovingFixes, speed \in Speeds : PositionFix(i, pos, speed)
    \/ \E i \in Tabs : TriggerAccident(i)
    \/ \E i \in Tabs : CancelEmergency(i)
    \/ \E i \in Tabs : ConfirmPress(i)
    \/ \E i \in Tabs : AcquireLock(i)
    \/ \E i \in Tabs, r \in ClassifyResponses : ClassifyReturns(i, r)
    \/ \E i \in Tabs, r \in InsertResults : InsertReturns(i, r)
    \/ \E i \in Tabs, r \in EmailResults : EmailReturns(i, r)

SpecMoving == Init /\ [][NextMoving]_vars

\* The classifier service answering one request after the other.
InitClassifier ==
    /\ InitPages /\ tabs = {} /\ NoAdmin /\ NoMotion
    /\ ServiceStarts(RequestBodies, {1})

NextClassifier ==
    \/ \E c \in Conns, data \in features : Receive(c, data)
    \/ \E c \in Conns, o \in RemoteOutcomes : RemoteReturns(c, o)
    \/ \E d \in {CACHE_TTL_MS \div 2} : Elapse(d, HorizonService)

SpecClassifier == InitClassifier /\ [][NextClassifier]_vars

\* The classifier service under clients that all send one body, for every body of the
\* rule sets, within one TTL.
InitRules ==
    /\ InitPages /\ tabs = {} /\ NoAdmin /\ NoMotion
    /\ \E s \in RuleSpeeds, d \in RuleDistances, h \in RuleHours :
            ServiceStarts({AccidentData(s, d, h)}, {1})

NextRules ==
    \/ \E c \in Conns, data \in features : Receive(c, data)
    \/ \E c \in Conns, o \in RemoteOutcomes : RemoteReturns(c, o)

SpecRules == InitRules /\ [][NextRules]_vars

\* The classifier service answering on two connections at once, within one TTL.
InitStampede ==
    /\ InitPages /\ tabs = {} /\ NoAdmin /\ NoMotion
    /\ ServiceStarts(RequestBodies, Conns)

NextStampede ==
    \/ \E c \in Conns, data \in features : Receive(c, data)
    \/ \E c \in Conns, o \in RemoteOutcomes : RemoteReturns(c, o)

SpecStampede == InitStampede /\ [][NextStampede]_vars

\* Two admins on a table that holds one reported incident.
InitAdmin ==
    /\ now = Epoch /\ tabs = {} /\ localStorage = Null
    /\ tab = [i \in Tabs |-> InitTab]
    /\ accidents = Reported
    /\ NoService /\ NoMotion
    /\ views = [a \in Admins |-> InitView]
    /\ updates = {}

NextAdmin ==
    \/ \E a \in Admins, r \in {"ok", "error"} : FetchAccidents(a, r)
    \/ \E a \in Admins, id \in DOMAIN accidents, status \in {"responded", "resolved"} :
            UpdateAccidentStatus(a, id, status)
    \/ \E u \in updates, r \in {"ok", "error"} : UpdateReturns(u, r)

SpecAdmin == InitAdmin /\ [][NextAdmin]_vars

\* One admin page receiving the INSERT events of the realtime channel.
InitAlerts ==
    /\ now = Epoch /\ tabs = {} /\ localStorage = Null
    /\ tab = [i \in Tabs |-> InitTab]
    /\ accidents = ReportedTwice
    /\ NoService /\ NoMotion
    /\ views = [a \in {1} |-> InitView]
    /\ updates = {}

NextAlerts ==
    \/ \E a \in Admins, r \in {"ok", "error"} : FetchAccidents(a, r)
    \/ \E a \in Admins, id \in EventIds : InsertEvent(a, id)
    \/ \E d \in {DedupeMs \div 2} : Elapse(d, HorizonAlerts)

SpecAlerts == InitAlerts /\ [][NextAlerts]_vars

\* One hook, on every platform and with every setting of the options.
InitMotion ==
    /\ InitPages /\ tabs = {} /\ NoService /\ NoAdmin
    /\ \E p \in Platforms, o \in MotionOptions : motion = Mounted(p, o)

NextMotion ==
    \/ CheckSupport
    \/ RequestPermission
    \/ \E answer \in {"granted", "denied", "error"} : PermissionAnswered(answer)
    \/ Enable
    \/ Disable
    \/ \E event \in Samples : Motion(event)
    \/ \E d \in {debounceMs \div 2} : Elapse(d, HorizonMotion)

SpecMotion == InitMotion /\ [][NextMotion]_vars

\* ------------------------------------------------------------------ properties

Failed == {"2xx unparsable", "non-2xx", "transport error"}

InFlight == {"classifying", "inserting", "notifying"}

\* The rows a tab's current run inserted.
RowsOfRun(i) ==
    {k \in DOMAIN accidents : accidents[k].tab = i /\ accidents[k].run = tab[i].run}

\* A step in which tab i's Cancel handler ran: its toast appears.
CancelStep(i) ==
    tab[i].lastToast # "Alert Cancelled" /\ tab'[i].lastToast = "Alert Cancelled"

\* C1: within one session onConfirm is invoked at most once, and it has been invoked
\* exactly once as soon as a Confirm press or a countdown expiry happened in the
\* session, whatever the order of the two.
C1_ConfirmInvokedOnce ==
    \A i \in Tabs :
        /\ tab[i].confirmCalls <= 1
        /\ tab[i].fired # {} => tab[i].confirmCalls = 1

\* Both triggers happened in one session and onConfirm ran once.
C1_Witness ==
    \E i \in Tabs : tab[i].fired = {"press", "expiry"} /\ tab[i].confirmCalls = 1

\* C2: in one pipeline instance two accepted confirm calls are at least the cool-down
\* window apart: any two incidents of a tab are, and so is a run in progress from every
\* incident an earlier run of the tab persisted.
C2_OneIncidentPerWindow ==
    /\ \A a, b \in DOMAIN accidents :
        (a < b /\ accidents[a].tab = accidents[b].tab)
            => accidents[b].at - accidents[a].at >= CooldownMs
    /\ \A i \in Tabs : \A a \in DOMAIN accidents :
        (tab[i].pc # "idle" /\ accidents[a].tab = i /\ accidents[a].run # tab[i].run)
            => tab[i].local.now - accidents[a].at >= CooldownMs

\* A second confirm call came inside the window and returned: one incident exists.
C2_Witness ==
    \E i \in Tabs :
        /\ tab[i].log = "recently sent" /\ tab[i].pc = "idle"
        /\ Len(accidents) = 1
        /\ now - accidents[1].at < CooldownMs /\ now > accidents[1].at

\* C3: the incidents of one user, whichever tab persisted them, are at least the
\* cool-down window apart.
C3_OneIncidentAcrossTabs ==
    \A a, b \in DOMAIN accidents :
        a < b => accidents[b].at - accidents[a].at >= CooldownMs

\* C4: while a run's network calls are in flight the marker holds the run's time, in
\* memory and in localStorage; between the guard's decision and the write the tab does
\* nothing else and no time passes; no step lowers or clears the marker.
C4_MarkerBeforeRequest ==
    [][\A i \in Tabs :
        /\ tab'[i].pc \in InFlight
            => /\ tab'[i].lastEmergencyAtRef = tab'[i].local.now
               /\ localStorage' # Null
               /\ Val(localStorage') >= tab'[i].local.now
        /\ tab[i].pc = "acquire"
            => /\ now' = now
               /\ \/ tab'[i] = tab[i]
                  \/ /\ tab'[i].pc = "classifying"
                     /\ localStorage' = Some(tab[i].local.now)
        /\ tab'[i].lastEmergencyAtRef >= tab[i].lastEmergencyAtRef
        /\ localStorage # Null
            => localStorage' # Null /\ Val(localStorage') >= Val(localStorage)]_vars

\* A run ended in success and the marker still holds the run's time.
C4_Witness ==
    \E i \in Tabs :
        /\ tab[i].pc = "idle" /\ tab[i].outcome = <<"success">>
        /\ tab[i].lastEmergencyAtRef = tab[i].local.now
        /\ localStorage = Some(tab[i].local.now)

\* C5: once the classification call has come back, whatever it came back with, the
\* insert has been issued; a run reports failure only when the insert failed.
C5_ClassificationNeverBlocks ==
    \A i \in Tabs :
        /\ tab[i].local.classify # "none"
            => tab[i].pc = "inserting" \/ tab[i].local.insert # "none"
        /\ "failure" \in {tab[i].outcome[k] : k \in DOMAIN tab[i].outcome}
            => tab[i].local.insert \in {"error", "rejected"}

\* The classification call failed with a bad status and the incident was persisted.
C5_Witness ==
    \E i \in Tabs :
        /\ tab[i].local.classify = "non-2xx"
        /\ tab[i].local.insert = "ok"
        /\ RowsOfRun(i) # {}

\* C6: a run issues at most one notification request, and only with its incident
\* persisted; a run whose insert failed reports the error and issues none; a
\* notification that came back, failed or not, is not issued again.
C6_NotifyOnceAfterInsert ==
    \A i \in Tabs :
        /\ tab[i].emailRequests <= 1
        /\ tab[i].emailRequests = 1
            => tab[i].local.insert = "ok" /\ RowsOfRun(i) # {}
        /\ tab[i].local.insert \in {"error", "rejected"}
            => /\ tab[i].emailRequests = 0
               /\ tab[i].outcome = <<"failure">>
               /\ tab[i].pc = "idle"
               /\ RowsOfRun(i) = {}
        /\ tab[i].local.email # "none"
            => tab[i].pc = "idle" /\ tab[i].emailRequests = 1

\* The insert failed: an error was reported and no notification request was issued.
C6_Witness ==
    \E i \in Tabs :
        /\ tab[i].local.insert = "error"
        /\ tab[i].outcome = <<"failure">>
        /\ tab[i].emailRequests = 0

\* C7: when the notification call failed after a successful insert, the run reports
\* partial success and nothing else, its incident is there, once, with status pending,
\* and the session is closed.
C7_PartialSuccess ==
    \A i \in Tabs :
        tab[i].local.email \in Failed
            => /\ tab[i].local.insert = "ok"
               /\ tab[i].outcome = <<"partial">>
               /\ tab[i].pc = "idle"
               /\ ~tab[i].showEmergency
               /\ Cardinality(RowsOfRun(i)) = 1
               /\ \A k \in RowsOfRun(i) : accidents[k].status = "pending"

\* The notification call came back with a failure status.
C7_Witness ==
    \E i \in Tabs :
        /\ tab[i].local.email = "non-2xx"
        /\ tab[i].outcome = <<"partial">>
        /\ ~tab[i].showEmergency

\* C8: once a run has reported its outcome, the session is closed.
C8_ClosedAfterRun ==
    \A i \in Tabs :
        (tab[i].pc = "idle" /\ tab[i].outcome # << >>) => ~tab[i].showEmergency

C10_InFlightReleased ==
    \A i \in Tabs :
        /\ tab[i].reportInFlightRef = (tab[i].pc \in InFlight)
        /\ tab[i].isReporting = (tab[i].pc \in InFlight)

\* A run ended because the insert threw, and the flags are clear.
C10_Witness ==
    \E i \in Tabs :
        /\ tab[i].local.insert = "rejected"
        /\ tab[i].pc = "idle"
        /\ ~tab[i].reportInFlightRef /\ ~tab[i].isReporting

\* The pending timeout of tab i fires in this step and tick runs.
TickRuns(i) ==
    /\ tab[i].timeoutId # 0 /\ now >= tab[i].timeoutId
    /\ tab'[i].timeoutId # tab[i].timeoutId
    /\ tab'[i].showEmergency
    /\ tab'[i].isReporting = tab[i].isReporting

\* C16: while a session is Open the deadline stays at the time of the opening plus
\* countdownDuration, every tick displays max(0, ceil((deadline - now) / 1000)) however
\* late it runs, the expiry never confirms before the deadline, and the first tick at
\* or after the deadline confirms.
C16_CountdownFollowsDeadline ==
    [][\A i \in tabs :
        LET old == tab[i]
            new == tab'[i]
        IN  /\ (~old.showEmergency /\ new.showEmergency)
                    => /\ new.deadlineRef = now + countdownDuration * 1000
                       /\ new.countdown = RemainingSec(new.deadlineRef, now)
            /\ (old.showEmergency /\ new.showEmergency)
                    => new.deadlineRef = old.deadlineRef
            /\ TickRuns(i)
                    => /\ new.countdown = RemainingSec(old.deadlineRef, now)
                       /\ now >= old.deadlineRef <=> "expiry" \in new.fired
            /\ ("expiry" \notin old.fired /\ "expiry" \in new.fired)
                    => /\ now >= old.deadlineRef
                       /\ new.countdown = 0]_vars

\* A tick that ran after the deadline, the clock having moved past it between two
\* ticks, confirmed.
C16_Witness ==
    \E i \in tabs :
        /\ tab[i].showEmergency
        /\ tab[i].deadlineRef # 0 /\ now > tab[i].deadlineRef
        /\ tab[i].fired = {"expiry"}
        /\ tab[i].countdown = 0
        /\ tab[i].confirmCalls = 1

\* C17: every incident the pipeline inserts has status pending and a risk tier in
\* {low, medium, high}, whatever the classifier returned, and the pipeline never
\* changes an incident it inserted.
C17_InsertedPendingWithTier ==
    [][\A k \in DOMAIN accidents' :
        /\ accidents'[k].status = "pending"
        /\ accidents'[k].risk_level \in RiskLevels
        /\ k \in DOMAIN accidents => accidents'[k] = accidents[k]]_vars

\* Two incidents were inserted, the later one after a 2xx classification response
\* and with the default tier.
C17_Witness ==
    \E i \in tabs :
        /\ Len(accidents) = 2
        /\ tab[i].local.classify = "2xx"
        /\ tab[i].local.insert = "ok"
        /\ RowsOfRun(i) = {2}
        /\ accidents[2].risk_level = "medium"
        /\ accidents[2].status = "pending"

\* The tab holds a position fix: a latitude and a longitude.
HasFix(t) == t.geoRef.latitude # Null /\ t.geoRef.longitude # Null

\* C18: a session goes from Closed to Open only in a tab that holds a position fix;
\* whatever happens in a tab without a fix, a trigger included, leaves its session
\* Closed, writes no marker, inserts no incident and requests no notification.
C18_OpensOnlyWithFix ==
    [][\A i \in tabs :
        LET old == tab[i]
            new == tab'[i]
        IN  /\ (~old.showEmergency /\ new.showEmergency) => HasFix(old)
            /\ (~HasFix(old) /\ new # old)
                    => /\ ~new.showEmergency
                       /\ new.pc = "idle"
                       /\ new.lastEmergencyAtRef = old.lastEmergencyAtRef
                       /\ new.emailRequests = old.emailRequests
                       /\ localStorage' = localStorage
                       /\ accidents' = accidents]_vars

\* A trigger in a tab with a fix has just opened a session.
C18_Witness ==
    \E i \in tabs :
        /\ HasFix(tab[i])
        /\ tab[i].showEmergency
        /\ tab[i].deadlineRef = now + countdownDuration * 1000
        /\ tab[i].fired = {}
        /\ tab[i].pc = "idle"

\* C19: after any classifier error (transport error, non-2xx status, unparsable
\* body) the tier of the incident the run inserts is the one computed from the speed:
\* high above 50, medium above 20, else low.
C19_ErrorGivesSpeedTier ==
    \A i \in tabs :
        (tab[i].local.classify \in Failed /\ tab[i].local.insert = "ok")
            => \A k \in RowsOfRun(i) :
                    accidents[k].risk_level =
                        IF tab[i].local.spd > 50 THEN "high"
                        ELSE IF tab[i].local.spd > 20 THEN "medium" ELSE "low"

\* C20: after a run that ended in a persistence failure no incident exists for the
\* run, the in-flight guard is released, and the duplicate guard is released too: a
\* confirm of the same user right then is accepted.
C20_GuardsReleasedAfterFailure ==
    \A i \in tabs :
        (tab[i].pc = "idle" /\ tab[i].local.insert \in {"error", "rejected"})
            => /\ RowsOfRun(i) = {}
               /\ ~tab[i].reportInFlightRef /\ ~tab[i].isReporting
               /\ handleConfirmEmergency(tab[i]).log = "accepted"

\* ------------------------------------------------------------------ properties: sessions

\* C21: every step that takes a session from Closed to Open leaves the countdown at
\* the full duration with a deadline that far from now, the has-fired guard clear,
\* the loading flag clear and the timer running, whatever the session before it ended
\* with, so that a confirm in the new session invokes the confirm callback once.
C21_OpenResets ==
    [][\A i \in tabs :
        LET old == tab[i]
            new == tab'[i]
        IN  (~old.showEmergency /\ new.showEmergency)
                => /\ new.countdown = countdownDuration
                   /\ new.deadlineRef = now' + countdownDuration * 1000
                   /\ ~new.hasConfirmedRef
                   /\ ~new.isReporting
                   /\ new.timeoutId # 0
                   /\ new.confirmCalls = 0]_vars

\* A session has just opened in a tab whose earlier run failed at the insert (its
\* session had fired and was cancelled).
C21_Witness ==
    \E i \in tabs :
        /\ tab[i].run >= 1
        /\ accidents = << >>
        /\ tab[i].showEmergency
        /\ tab[i].deadlineRef = now + countdownDuration * 1000
        /\ tab[i].countdown = countdownDuration
        /\ ~tab[i].hasConfirmedRef
        /\ tab[i].fired = {}

\* C22: a tab has at most one run in flight: a run starts only in a tab whose
\* in-flight flag is clear and that has no run between the lock and the finally
\* block, and a confirm that reaches the pipeline while the flag is set changes
\* nothing but the log, also when the cool-down window is over because the run in
\* flight is slow.
C22_OneRunInFlight ==
    [][\A i \in tabs :
        LET old == tab[i]
            new == tab'[i]
            confirmed == handleConfirmEmergency(old)
        IN  /\ new.run # old.run
                => /\ new.run = old.run + 1
                   /\ ~old.reportInFlightRef
                   /\ old.pc \notin InFlight
            /\ old.reportInFlightRef
                => /\ old.pc \in InFlight
                   /\ confirmed.log \in {"recently sent", "already reporting"}
                   /\ confirmed = [old EXCEPT !.log = confirmed.log]]_vars

\* A run is waiting for the classification, 8000 ms or more after it took the lock:
\* only the in-flight flag stops a confirm now.
C22_Witness ==
    \E i \in tabs :
        /\ tab[i].reportInFlightRef
        /\ tab[i].pc = "classifying"
        /\ now - tab[i].lastEmergencyAtRef >= CooldownMs
        /\ handleConfirmEmergency(tab[i]).log = "already reporting"

\* The stages of a run in their order: the lock, Classifying, Persisting, Notifying;
\* a step of tab i keeps to it.  The insert is issued when the classification call
\* has come back, the notification is requested in the step in which the insert
\* succeeded and wrote the run's row, and a failed insert ends the run as a failure.
StagesInOrder(i) ==
    LET old == tab[i]
        new == tab'[i]
    IN  /\ new.pc # old.pc =>
            \/ old.pc = "idle" /\ new.pc = "acquire"
            \/ old.pc = "acquire" /\ new.pc = "classifying"
            \/ old.pc = "classifying" /\ new.pc = "inserting"
                    /\ new.local.classify # "none"
            \/ old.pc = "inserting" /\ new.pc = "notifying"
                    /\ new.local.insert = "ok"
                    /\ accidents' = Append(accidents, Row(i, old))
            \/ old.pc = "inserting" /\ new.pc = "idle"
                    /\ new.local.insert \in {"error", "rejected"}
                    /\ new.outcome = <<"failure">>
                    /\ accidents' = accidents
            \/ old.pc = "notifying" /\ new.pc = "idle"
                    /\ new.local.email # "none"
        /\ accidents' # accidents => old.pc = "inserting" /\ old.local.classify # "none"
        /\ new.emailRequests > old.emailRequests
                => old.pc = "inserting" /\ new.local.insert = "ok"

\* C27: every run that was accepted, given that each network call eventually returns
\* or fails, eventually reaches Done, and passes Classifying, Persisting and Notifying
\* in this order on its way: no insert before the classification step completed, no
\* notification request before the insert succeeded, and a failed insert leads
\* straight to Done (failure).
C27_RunReachesDone ==
    /\ [][\A i \in tabs : StagesInOrder(i)]_vars
    /\ \A i \in Tabs : (tab[i].pc # "idle") ~> (tab[i].pc = "idle")

\* A run went through all three stages and is done.
C27_Witness ==
    \E i \in tabs :
        /\ tab[i].pc = "idle"
        /\ tab[i].run = 1
        /\ tab[i].local.classify # "none"
        /\ tab[i].local.insert = "ok"
        /\ tab[i].local.email # "none"
        /\ Len(tab[i].outcome) = 1

\* C28: in an Open session whose deadline has passed, ticks being scheduled, the
\* confirm callback is eventually invoked, unless the session was closed before.
C28_ExpiryConfirms ==
    \A i \in Tabs :
        (tab[i].showEmergency /\ tab[i].deadlineRef # 0 /\ now >= tab[i].deadlineRef)
            ~> (tab[i].confirmCalls >= 1 \/ ~tab[i].showEmergency)

\* The tick after the deadline invoked the confirm callback of a session in which
\* nothing was pressed.
C28_Witness ==
    \E i \in tabs :
        /\ tab[i].showEmergency
        /\ now >= tab[i].deadlineRef
        /\ tab[i].fired = {"expiry"}
        /\ tab[i].confirmCalls = 1

\* C29: isReporting is true in exactly the states in which a run is between its lock
\* and its finally block, and in every such state the Confirm and the Cancel control
\* are inert: Cancel is disabled, a confirm is a no-op, and no step from such a state
\* is a Cancel, invokes the confirm callback or starts a run.
C29_ReportingMeansInert ==
    [][\A i \in tabs :
        LET old == tab[i]
            new == tab'[i]
        IN  /\ old.isReporting <=> old.pc \in InFlight
            /\ new.isReporting <=> new.pc \in InFlight
            /\ old.isReporting
                => /\ CancelDisabled(old)
                   /\ handleConfirmOnce(old) = old
                   /\ ~CancelStep(i)
                   /\ new.showEmergency \/ new.pc = "idle"
                   /\ new.confirmCalls = old.confirmCalls
                   /\ new.fired = old.fired
                   /\ new.run = old.run]_vars

\* A run is waiting for the notification in an Open session: both controls are shown
\* and inert.
C29_Witness ==
    \E i \in tabs :
        /\ tab[i].isReporting
        /\ tab[i].showEmergency
        /\ tab[i].pc = "notifying"
        /\ CancelDisabled(tab[i])
        /\ handleConfirmOnce(tab[i]) = tab[i]

\* C33: a run reports nothing while it is under way and exactly one outcome in the
\* step that ends it: success, partial success or failure; no other step reports an
\* outcome.
C33_OneOutcomePerRun ==
    [][\A i \in tabs :
        LET old == tab[i]
            new == tab'[i]
            ends == old.pc \in InFlight /\ new.pc = "idle"
        IN  /\ old.pc \in InFlight => old.outcome = << >>
            /\ ends => /\ Len(new.outcome) = 1
                       /\ new.outcome[1] \in {"success", "partial", "failure"}
            /\ (new.outcome # old.outcome /\ ~ends) => new.outcome = << >>]_vars

\* A run whose notification call threw ended with the outcome partial success.
C33_Witness ==
    \E i \in tabs :
        /\ tab[i].pc = "idle"
        /\ tab[i].run = 1
        /\ tab[i].local.email = "transport error"
        /\ tab[i].outcome = <<"partial">>

\* The ways the pipeline rejects a confirm, as it logs them.
Rejections == {"no user or position", "recently sent", "already reporting"}

\* The confirm callback ran in this step of tab i and the pipeline rejected it.
RejectedStep(i) ==
    /\ tab'[i].confirmCalls = tab[i].confirmCalls + 1
    /\ tab'[i].log \in Rejections

\* C34: a confirm that the pipeline rejects (no user or position, a duplicate inside
\* the cool-down window, a run in flight) leaves the persisted marker, the in-memory
\* timestamp, the in-flight flag, the loading flag, the incidents and the
\* notification requests as they were and shows no toast; in whatever state the
\* confirm arrives, a rejection changes nothing but the log.
C34_RejectedConfirmIsNoOp ==
    [][\A i \in tabs :
        LET old == tab[i]
            new == tab'[i]
            confirmed == handleConfirmEmergency(old)
        IN  /\ RejectedStep(i)
                => /\ localStorage' = localStorage
                   /\ accidents' = accidents
                   /\ new.lastEmergencyAtRef = old.lastEmergencyAtRef
                   /\ new.reportInFlightRef = old.reportInFlightRef
                   /\ new.isReporting = old.isReporting
                   /\ new.emailRequests = old.emailRequests
                   /\ new.lastToast = old.lastToast
                   /\ new.outcome = old.outcome
                   /\ new.pc = old.pc /\ new.run = old.run
            /\ confirmed.log \in Rejections
                => confirmed = [old EXCEPT !.log = confirmed.log]]_vars

\* A confirm in a session opened less than 8000 ms after the tab's run took the lock
\* was rejected as a duplicate: no toast, no new run, the one incident of the run.
C34_Witness ==
    \E i \in tabs :
        /\ tab[i].log = "recently sent"
        /\ tab[i].confirmCalls = 1
        /\ tab[i].run = 1
        /\ tab[i].pc = "idle"
        /\ tab[i].lastToast = "none"
        /\ Len(accidents) = 1

\* The session of the tab is Open and its confirm callback returned without starting
\* a run.
Stuck(t) == t.showEmergency /\ t.log \in Rejections

\* In a step of tab i from a session whose confirm was rejected the has-fired guard
\* stays set, the pipeline is not invoked again, no run starts, and the session is
\* left only through Cancel.
StaysFired(i) ==
    LET old == tab[i]
        new == tab'[i]
    IN  Stuck(old)
            => /\ old.hasConfirmedRef
               /\ new.showEmergency => new.hasConfirmedRef
               /\ new.confirmCalls = old.confirmCalls
               /\ new.pc = "idle" /\ new.run = old.run
               /\ localStorage' = localStorage /\ accidents' = accidents
               /\ ~new.showEmergency => CancelStep(i)

\* C35: as claimed, in an Open session whose confirm was rejected the has-fired guard
\* stays set and the countdown stays stopped (no tick is pending and the displayed
\* value does not change); nothing invokes the pipeline again and the session is left
\* only through Cancel.
C35_RejectedSessionStopped ==
    [][\A i \in tabs :
        /\ StaysFired(i)
        /\ Stuck(tab[i])
            => /\ tab[i].timeoutId = 0
               /\ tab'[i].showEmergency => tab'[i].countdown = tab[i].countdown]_vars

\* C35: as amended, in an Open session whose confirm was rejected the has-fired guard
\* stays set, nothing invokes the pipeline again and the session is left only through
\* Cancel; the countdown is stopped once a tick has run at or after the deadline, and
\* until then the ticks go on and only lower the displayed value.
C35_RejectedSessionStaysFired ==
    [][\A i \in tabs :
        /\ StaysFired(i)
        /\ (Stuck(tab[i]) /\ "expiry" \in tab[i].fired)
            => tab[i].timeoutId = 0 /\ tab[i].countdown = 0
        /\ (Stuck(tab[i]) /\ tab'[i].showEmergency)
            => tab'[i].countdown <= tab[i].countdown]_vars

\* A Confirm press was rejected as a duplicate, the ticks went on to the deadline, and
\* the expiry did not invoke the confirm callback again.
C35_Witness ==
    \E i \in tabs :
        /\ Stuck(tab[i])
        /\ tab[i].fired = {"press", "expiry"}
        /\ tab[i].confirmCalls = 1
        /\ tab[i].countdown = 0
        /\ tab[i].timeoutId = 0

\* C36: a run reads the latitude, the longitude and the speed (0 when unknown) once,
\* when the confirm is accepted; the classification request, the inserted incident and
\* the notification request of the run carry that latitude and longitude, and the
\* first two that speed, whatever fixes arrive while the run waits for the network.
C36_PositionReadOnce ==
    [][\A i \in tabs :
        LET old == tab[i]
            new == tab'[i]
            read == [latitude |-> new.local.lat, longitude |-> new.local.lng]
            sent(body) == [latitude |-> Val(body).latitude,
                           longitude |-> Val(body).longitude]
        IN  /\ (old.pc = "idle" /\ new.pc = "acquire")
                => /\ new.local.lat = Val(old.geoRef.latitude)
                   /\ new.local.lng = Val(old.geoRef.longitude)
                   /\ new.local.spd = IF old.geoRef.speed = Null THEN 0
                                      ELSE Val(old.geoRef.speed)
            /\ (old.pc # "idle" /\ new.pc # "idle")
                => /\ new.local.lat = old.local.lat
                   /\ new.local.lng = old.local.lng
                   /\ new.local.spd = old.local.spd
            /\ new.pc \in InFlight => new.local.classifyBody # Null
            /\ new.pc \in {"inserting", "notifying"} => new.local.insertRow # Null
            /\ new.pc = "notifying" => new.local.emailBody # Null
            /\ new.local.classifyBody # Null
                => /\ sent(new.local.classifyBody) = read
                   /\ Val(new.local.classifyBody).speed = new.local.spd
            /\ new.local.insertRow # Null
                => /\ sent(new.local.insertRow) = read
                   /\ Val(new.local.insertRow).speed = new.local.spd
            /\ new.local.emailBody # Null
                => sent(new.local.emailBody) = read]_vars

\* A run was accepted at one position with the speed unknown, the device moved and
\* reported a speed while the run waited, and the notification request was issued with
\* the position of the start.
C36_Witness ==
    \E i \in tabs :
        /\ tab[i].local.emailBody = Some([latitude |-> 12, longitude |-> 77])
        /\ tab[i].local.insertRow
             = Some([latitude |-> 12, longitude |-> 77, speed |-> 0])
        /\ tab[i].geoRef.latitude = Some(13)
        /\ tab[i].geoRef.speed = Some(60)

\* C37: a confirm that reaches the pipeline of a tab with a user and a position is
\* rejected as a duplicate when it comes less than 8000 ms after the later of the
\* tab's in-memory timestamp and the persisted marker, and is accepted and starts a
\* run when it comes 8000 ms or more after it and the tab has no run in flight.
C37_GuardOpensAgain ==
    [][\A i \in tabs :
        LET old == tab[i]
            new == tab'[i]
            lastSeen == Max(old.lastEmergencyAtRef,
                            IF localStorage = Null THEN 0 ELSE Val(localStorage))
        IN  /\ (new.confirmCalls = old.confirmCalls + 1 /\ HasFix(old))
                => IF now - lastSeen < CooldownMs
                       THEN new.log = "recently sent" /\ new.pc = "idle"
                                /\ new.run = old.run
                   ELSE IF old.reportInFlightRef
                       THEN new.log = "already reporting" /\ new.run = old.run
                   ELSE new.log = "accepted" /\ new.pc = "acquire"
                            /\ new.local.now = now
            /\ old.pc = "acquire"
                => new = old \/ (new.pc = "classifying" /\ new.run = old.run + 1)]_vars

\* The second run of a tab was accepted exactly 8000 ms after the first one.
C37_Witness ==
    \E i \in tabs :
        /\ tab[i].run = 2
        /\ tab[i].pc = "classifying"
        /\ tab[i].log = "accepted"
        /\ Len(accidents) = 1
        /\ tab[i].local.now - accidents[1].at = CooldownMs

RemoteFailed(o) ==
    o.status # 200 \/ o.body = "not json" \/ o.body = "no text" \/ o.body = "no object"

\* The handler answered from the rules: on a rate-limited call or an unparsable text.
RuleAnswered(q) ==
    /\ q.remote # Null /\ q.response # Null
    /\ RateLimited(Val(q.remote).status) \/ Val(q.remote).body = "no object"

\* C11: every request whose remote model call failed (transport error, non-2xx status,
\* missing text, malformed or unparsable body) is answered with a 2xx response that
\* carries the rule-based fallback classification, never with an error status.
C11_FailureYieldsFallback ==
    \A c \in DOMAIN requests :
        LET q == requests[c]
        IN  (q.remote # Null /\ RemoteFailed(Val(q.remote)))
                => /\ Val(q.response).status = 200
                   /\ Val(q.response).value = Some(Fallback(Val(q.data)))

\* The tier the rules give for a speed (0.01 km/h), a distance (0.1 m) and an hour.
RuleTier(speed, distance, hour) ==
    LET night == hour < 6 \/ hour >= 22
        rush == hour \in 7..9 \/ hour \in 17..19
    IN  IF speed > 6000 \/ distance > 500 \/ (night /\ speed > 4000) THEN "high"
        ELSE IF speed \in 3000..6000 \/ distance \in 200..500 \/ rush THEN "medium"
        ELSE "low"

\* C12: for every speed, distance and hour the rule-based classification is high when
\* speed > 60 or distance > 50 or (night and speed > 40), else medium when
\* 30 <= speed <= 60 or 20 <= distance <= 50 or rush hour, else low, always with
\* confidence 0.55; (70, 0, 14) gives high and (10, 5, 8) gives medium.
C12_RuleBasedTiers ==
    \A c \in DOMAIN requests :
        LET q == requests[c]
            data == Val(q.data)
            value == Val(Val(q.response).value)
        IN  RuleAnswered(q) =>
                /\ value.risk_level
                     = Str(RuleTier(SpeedOrZero(data), data.locationChange, data.hour))
                /\ value.confidence = 55
                /\ data = AccidentData(Some(7000), 0, 14) => value.risk_level = Str("high")
                /\ data = AccidentData(Some(1000), 50, 8) => value.risk_level = Str("medium")

\* A request at night with a speed between 40 and 60 km/h was answered from the rules.
C12_Witness ==
    \E c \in DOMAIN requests :
        /\ RuleAnswered(requests[c])
        /\ Val(requests[c].data) = AccidentData(Some(4001), 0, 22)
        /\ Val(Val(requests[c].response).value).risk_level = Str("high")

\* A request with body data arrives on connection c in this step.
Arrives(c, data) ==
    /\ requests[c].pc = "idle"
    /\ requests'[c] # requests[c]
    /\ requests'[c].data = Some(data)

\* The request arriving in this step is answered from the cache with the
\* classification of the response p, and makes no remote call.
AnsweredAs(c, p) ==
    /\ requests'[c].pc = "idle"
    /\ requests'[c].remote = Null
    /\ requests'[c].response = Some(Response(200, p.response.value, "cache"))

C25_TagMatchesProduction ==
    \A c \in DOMAIN requests :
        LET q == requests[c]
            tag == Val(q.response).powered_by
        IN  (q.response # Null /\ Val(q.response).status = 200)
                => /\ q.remote = Null => tag = "cache"
                   /\ RuleAnswered(q) => tag = "fallback"
                   /\ tag = "google"
                        => q.remote # Null /\ Val(q.remote).body = "object"

\* The request arriving on connection c in this step is answered from the cache.
FromCache(c) ==
    requests'[c].pc = "idle" /\ requests'[c].remote = Null /\ requests'[c].response # Null

\* The cache entry is 60 s old or older: it was written CACHE_TTL_MS before it expires.
Expired(entry) == now - (entry.expiresAt - CACHE_TTL_MS) >= CACHE_TTL_MS

\* The remote call of connection c's request returns in this step.
Returns(c) == requests[c].pc = "fetching" /\ requests'[c].pc = "idle"

\* C30: a request is answered from the cache only when the entry of its key expires
\* strictly later than the time of the read; a request whose key has an entry 60 s
\* old or older is not answered from the cache, goes to the remote call, and
\* overwrites that entry when the call is back; no step removes an entry.
C30_ExpiredEntryIsReplaced ==
    [][/\ \A c \in DOMAIN requests, data \in features :
            LET cached == cache[cacheKey(data)]
            IN  Arrives(c, data)
                    => /\ FromCache(c) => cached # Null /\ Val(cached).expiresAt > now
                       /\ (cached # Null /\ Expired(Val(cached)))
                            => ~FromCache(c) /\ requests'[c].pc = "fetching"
       /\ \A c \in DOMAIN requests :
            LET key == cacheKey(Val(requests[c].data))
            IN  (Returns(c) /\ cache[key] # Null)
                    => /\ cache'[key] # Null
                       /\ Val(cache'[key]).expiresAt = now + CACHE_TTL_MS
       /\ \A k \in DOMAIN cache : cache[k] # Null => cache'[k] # Null]_vars

\* The tier of a response, and of a cache entry.
TierOf(response) == Val(response.value).risk_level

\* C31: when two requests of one cache key both missed the cache and both called the
\* remote model, their calls overlapping, both responses and the cache entry left
\* after both completed carry the same tier.
C31_StampedeIdempotent ==
    \A c, d \in DOMAIN requests :
        LET p == requests[c]
            q == requests[d]
            entry == cache[cacheKey(Val(p.data))]
        IN  (/\ d \in p.overlap
             /\ p.pc = "idle" /\ q.pc = "idle"
             /\ p.remote # Null /\ q.remote # Null)
                => /\ Val(p.response).status = 200
                   /\ Val(q.response).status = 200
                   /\ TierOf(Val(p.response)) = TierOf(Val(q.response))
                   /\ entry # Null
                   /\ Val(entry).value.risk_level = TierOf(Val(p.response))

\* ------------------------------------------------------------------ properties: admin

\* The place of a status in pending -> responded -> resolved.
StatusRank(status) ==
    IF status = "pending" THEN 0 ELSE IF status = "responded" THEN 1 ELSE 2

\* C14: the status of an incident never regresses, whatever updateAccidentStatus calls
\* the admin views issue from copies that may be stale: it only moves forward along
\* pending -> responded -> resolved, and a resolved incident is never updated again.
C14_StatusNeverRegresses ==
    [][\A id \in DOMAIN accidents :
        /\ StatusRank(accidents'[id].status) >= StatusRank(accidents[id].status)
        /\ accidents[id].status = "resolved" => accidents'[id] = accidents[id]]_vars

\* C26: after any sequence of updateAccidentStatus calls, calls from stale copies
\* included, an incident has responded_at set exactly when its status is responded
\* or resolved, and resolved_at set exactly when its status is resolved.
C26_TimestampsMatchStatus ==
    \A id \in DOMAIN accidents :
        LET row == accidents[id]
        IN  /\ row.responded_at # Null <=> row.status \in {"responded", "resolved"}
            /\ row.resolved_at # Null <=> row.status = "resolved"

\* C39: on an admin page no incident id raises two new-accident alerts less than
\* 5000 ms apart, whatever INSERT events arrive, repeated events for one id with
\* events for other ids between them included.
C39_OneAlertPerWindow ==
    \A a \in DOMAIN views :
        LET alerts == views[a].alerts
        IN  \A j, k \in DOMAIN alerts :
                (j < k /\ alerts[j].id = alerts[k].id)
                    => alerts[k].at - alerts[j].at >= DedupeMs

\* ------------------------------------------------------------------ properties: motion

\* The last sample had gravity-inclusive data with a magnitude below the drop threshold.
DropSample(h) ==
    /\ h.sample # Null
    /\ Val(h.sample).including # Null
    /\ SqrtBelow(SumOfSquares(Val(Val(h.sample).including)), h.options.dropThreshold)

\* C15: a sample with gravity-inclusive data whose magnitude is below the drop
\* threshold and that is not debounced fires exactly one event, drop and not shake,
\* also when the deviation from 9.81 exceeds the shake threshold; no sample fires
\* both events.
C15_DropExcludesShake ==
    /\ (DropSample(motion) /\ ~motion.debounced) => motion.detected = <<"drop">>
    /\ Len(motion.detected) <= 1

\* A non-debounced sample of 2.49 m/s^2 under the default thresholds, where the
\* deviation from gravity (7.32) exceeds the shake threshold too, fired drop.
C15_Witness ==
    /\ motion.sample = Some([including |-> Some(<<0, 0, 249>>), linear |-> Null])
    /\ motion.options.shakeThreshold = 700
    /\ IsShake(TRUE, SumOfSquares(<<0, 0, 249>>), motion.options)
    /\ ~motion.debounced
    /\ motion.detected = <<"drop">>

\* C23: any two motion events the hook fires are at least debounceMs apart, the
\* last-trigger timestamp never decreases, and whatever happens less than debounceMs
\* after the last event, a sample included, fires nothing and leaves the
\* last-trigger timestamp and the last event as they were.
C23_EventsDebounced ==
    [][LET fired == motion'.firedAt
           inCooldown == now - motion.lastTriggerRef < motion.options.debounceMs
       IN  /\ \A k \in 1 .. Len(fired) - 1 :
                    fired[k + 1] - fired[k] >= motion.options.debounceMs
           /\ motion'.lastTriggerRef >= motion.lastTriggerRef
           /\ (inCooldown /\ now' = now)
                    => /\ fired = motion.firedAt
                       /\ motion'.lastTriggerRef = motion.lastTriggerRef
                       /\ motion'.lastEvent = motion.lastEvent
                       /\ motion'.sample # motion.sample
                            => motion'.detected = << >>]_vars

\* Two events were fired, the second one debounceMs after the first, and the last
\* sample arrived inside the cool-down of the second and was dropped.
C23_Witness ==
    /\ Len(motion.firedAt) = 2
    /\ motion.firedAt[2] - motion.firedAt[1] = debounceMs
    /\ motion.debounced
    /\ now - motion.lastTriggerRef < debounceMs

\* The platform of the hook grants the motion permission without asking: a mobile
\* device with motion support and no requestPermission.
AutoGrants(p) ==
    (p.hasDeviceMotion \/ p.hasAccelerometer) /\ p.isMobile /\ ~p.needsIOSPermission

\* C24: on a platform that asks for consent the detection is enabled (isEnabled, the
\* listener registered) only while permissionState is granted, after any sequence of
\* requestPermission, enable and disable calls; on a platform that grants without
\* asking, the mount leaves the detection enabled with permissionState granted.
C24_EnabledOnlyWhenGranted ==
    [][/\ (motion'.platform.needsIOSPermission /\ motion'.isEnabled)
            => motion'.permissionState = "granted"
       /\ (AutoGrants(motion.platform) /\ ~motion.effectsRan /\ motion'.effectsRan)
            => motion'.isEnabled /\ motion'.permissionState = "granted"]_vars

\* C32: a sample that is not debounced and has gravity-exclusive data only never fires
\* drop, and fires shake exactly when its magnitude exceeds the shake threshold; a
\* sample that is not debounced, has gravity-inclusive data and is not a drop fires
\* shake exactly when its magnitude differs from 9.81 by more than the shake threshold.
C32_ShakeByDataKind ==
    LET sample == Val(motion.sample)
        threshold == motion.options.shakeThreshold
        n == SumOfSquares(Val(IF sample.including # Null THEN sample.including
                              ELSE sample.linear))
        above == n > (gravity + threshold) * (gravity + threshold)
        below == gravity - threshold > 0
                    /\ n < (gravity - threshold) * (gravity - threshold)
    IN  (motion.sample # Null /\ ~motion.debounced)
            => /\ (sample.including = Null /\ sample.linear # Null)
                    => motion.detected
                         = IF n > threshold * threshold THEN <<"shake">> ELSE << >>
               /\ (sample.including # Null /\ ~DropSample(motion))
                    => motion.detected = IF above \/ below THEN <<"shake">> ELSE << >>

\* A sample with gravity-exclusive data only and a magnitude of 7.01 m/s^2, which is
\* above the shake threshold of 7 and above the drop threshold, fired shake.
C32_Witness ==
    /\ motion.sample = Some([including |-> Null, linear |-> Some(<<0, 0, 701>>)])
    /\ motion.options.shakeThreshold = 700
    /\ ~motion.debounced
    /\ motion.detected = <<"shake">>

====
